---- MODULE Spec2Model ----
(***************************************************************************)
(* State-machine model of the NftCard component                            *)
(* (src/src/components/NftCard.tsx): the five action dialogs, the shared   *)
(* summary slot shown by the ConfirmationDialog, the calls issued through  *)
(* `commands` and the asynchronous application of their outcomes; and of   *)
(* the wallet operations of src/src/commands.ts over the backend bridge.   *)
(***************************************************************************)
EXTENDS Integers, Sequences, FiniteSets, TLC

\* ------------------------------------------------------------------ bounds
\* Total number of commands.* calls one card issues in a behaviour.
MaxCalls == 2

\* ------------------------------------------------------------ value domains
\* A nullable value is the empty tuple (null) or a one-element tuple.
Null == <<>>
Some(v) == <<v>>
\* The absent value of a string-valued position.
None == "-"
Kinds == {"transfer", "assign", "unassign", "addUrl", "burn"}
LauncherId == "X"
BurnAddress == "burn1"
FeeInputs == {"0", "1"}
Balances == {0, 1}
AddressInputs == {"", "addr1"}
ProfileInputs == {"", "did1"}
UrlInputs == {"", "u1"}
\* Two of the three values the Kind select offers ("metadata" is the third).
UriKinds == {"data", "license"}

VARIABLES
  nft,            \* props.nft: the entity snapshot handed in by the host
  balance,        \* walletState.sync.balance
  transferOpen, assignOpen, unassignOpen, addUrlOpen, burnOpen,
  summary,        \* the pending TransactionSummary, or Null
  addUrlForm,     \* values held by the react-hook-form instance addUrlForm
  inflight,       \* promises of commands.* calls not yet settled
  ncalls,         \* number of commands.* calls issued so far
  invokes,        \* number of invocations the backend bridge has received
  called,         \* the commands.* call the last step issued, or Null
  settled,        \* the call whose promise the last step settled, or Null
  submitted,      \* the input the user submitted in the last step, or Null
  rejected,       \* the fields the last step's validation rejected
  refreshes,      \* number of props.updateNfts() invocations of the last step
  reported,       \* what the last step gave console.error, or Null
  thrown,         \* the rejection the last step left unhandled, or Null
  returned,       \* the value the promise settled by the last step resolved
                  \* with, or Null
  event           \* the user's gesture the last step handled, or None; a
                  \* gesture on the gate while nothing is pending is "-idle"

vars == <<nft, balance, transferOpen, assignOpen, unassignOpen, addUrlOpen,
          burnOpen, summary, addUrlForm, inflight, ncalls, invokes,
          called, settled, submitted, rejected, refreshes, reported, thrown,
          returned, event>>

openFlags == <<transferOpen, assignOpen, unassignOpen, addUrlOpen, burnOpen>>
hostVars == <<nft, balance>>

\* ------------------------------------------------------------ pure helpers
\* JavaScript truthiness of a nullable number, as used by `!nft.created_height`.
Falsy(x) == x = Null \/ x = Some(0)

\* BigNumber(s) for the fee strings of FeeInputs; -1 stands for NaN.
BigNumber(s) ==
  CASE s = "0" -> 0
    [] s = "1" -> 1
    [] s = "2" -> 2
    [] OTHER -> -1

\* `amount || 0`: the empty string is falsy and is replaced by the number 0.
AmountOrZero(s) == IF s = "" THEN 0 ELSE BigNumber(s)

\* BigNumber(balance).gte(amount || 0); a comparison with NaN is false.
BalanceGte(bal, s) == AmountOrZero(s) # -1 /\ bal >= AmountOrZero(s)

\* amount(decimals): the fee parses as a non-negative decimal amount.
AmountValid(s) == BigNumber(s) >= 0

\* The open flag of each action kind.
Open(k) ==
  CASE k = "transfer" -> transferOpen
    [] k = "assign" -> assignOpen
    [] k = "unassign" -> unassignOpen
    [] k = "addUrl" -> addUrlOpen
    [] k = "burn" -> burnOpen

setTransferOpen(v) ==
  /\ transferOpen' = v
  /\ UNCHANGED <<assignOpen, unassignOpen, addUrlOpen, burnOpen>>

setAssignOpen(v) ==
  /\ assignOpen' = v
  /\ UNCHANGED <<transferOpen, unassignOpen, addUrlOpen, burnOpen>>

setUnassignOpen(v) ==
  /\ unassignOpen' = v
  /\ UNCHANGED <<transferOpen, assignOpen, addUrlOpen, burnOpen>>

setAddUrlOpen(v) ==
  /\ addUrlOpen' = v
  /\ UNCHANGED <<transferOpen, assignOpen, unassignOpen, burnOpen>>

setBurnOpen(v) ==
  /\ burnOpen' = v
  /\ UNCHANGED <<transferOpen, assignOpen, unassignOpen, addUrlOpen>>

SetOpen(k, v) ==
  CASE k = "transfer" -> setTransferOpen(v)
    [] k = "assign" -> setAssignOpen(v)
    [] k = "unassign" -> setUnassignOpen(v)
    [] k = "addUrl" -> setAddUrlOpen(v)
    [] k = "burn" -> setBurnOpen(v)

DefaultValues == [url |-> "", kind |-> "data", fee |-> "0"]

\* The snapshots the host hands in: unconfirmed or confirmed, with or without
\* an owner profile, visible or hidden.
NftRecord(visible, created_height, owner_did) ==
  [launcher_id |-> LauncherId, visible |-> visible,
   created_height |-> created_height, owner_did |-> owner_did]

NftRecords ==
  {NftRecord(TRUE, Null, Null), NftRecord(TRUE, Some(1), Some("did1")),
   NftRecord(FALSE, Some(1), Null)}

AddUrlValues == [url : UrlInputs, kind : UriKinds, fee : FeeInputs]

\* -------------------------------------------------------------------- Init
Init ==
  /\ nft \in NftRecords
  /\ balance \in Balances
  /\ transferOpen = FALSE
  /\ assignOpen = FALSE
  /\ unassignOpen = FALSE
  /\ addUrlOpen = FALSE
  /\ burnOpen = FALSE
  /\ summary = Null
  /\ addUrlForm = DefaultValues
  /\ inflight = {}
  /\ ncalls = 0
  /\ invokes = 0
  /\ called = Null
  /\ settled = Null
  /\ submitted = Null
  /\ rejected = {}
  /\ refreshes = 0
  /\ reported = Null
  /\ thrown = Null
  /\ returned = Null
  /\ event = None

\* ---------------------------------------------------------- Command Client
\* One call of an operation of `commands`: the promise joins the in-flight
\* set; the command and its arguments are what the backend bridge receives.
IssueCall(kind, cmd, args) ==
  /\ ncalls < MaxCalls
  /\ ncalls' = ncalls + 1
  /\ invokes' = invokes + 1
  /\ inflight' = inflight \cup {[id |-> ncalls + 1, kind |-> kind]}
  /\ called' = Some([cmd |-> cmd, args |-> args])

\* A step that issues no call.
NoCall == called' = Null /\ UNCHANGED <<inflight, ncalls, invokes>>

\* A step that settles no promise, invokes no callback of the host and reports
\* nothing.
Quiet ==
  /\ settled' = Null
  /\ refreshes' = 0
  /\ reported' = Null
  /\ thrown' = Null
  /\ returned' = Null

\* A step in which the user submits no form.
NoSubmission == submitted' = Null /\ rejected' = {}

\* What the backend can answer to call c: ok with a payload or error with a
\* cause.  The payload of call c is the summary numbered c.id.
Results(c) ==
  {[status |-> "ok", data |-> Some(c.id), error |-> Null],
   [status |-> "error", data |-> Null, error |-> Some(c.id)]}

\* ------------------------------------------------- NftCard: submit handlers
\* toggleVisibility sending the flag the entity already has.
toggleVisibility_SameFlag ==
  IssueCall("toggle", "updateNft", <<nft.launcher_id, nft.visible>>)

toggleVisibility ==
  IssueCall("toggle", "updateNft", <<nft.launcher_id, ~nft.visible>>)

\* onTransferSubmit sending the NFT to the burn address instead of the address
\* the user entered (the two transferNfts callers mixed up).
onTransferSubmit_ToBurnAddress(address, fee) ==
  IssueCall("transfer", "transferNfts", <<<<nft.launcher_id>>, BurnAddress, fee>>)

onTransferSubmit(address, fee) ==
  IssueCall("transfer", "transferNfts", <<<<nft.launcher_id>>, address, fee>>)

onAssignSubmit(profile, fee) ==
  IssueCall("assign", "assignNftsToDid", <<<<nft.launcher_id>>, profile, fee>>)

\* onUnassignSubmit passing the entity's current owner profile instead of null.
onUnassignSubmit_OwnerProfile(fee) ==
  IssueCall("unassign", "assignNftsToDid",
            <<<<nft.launcher_id>>, nft.owner_did, fee>>)

onUnassignSubmit(fee) ==
  IssueCall("unassign", "assignNftsToDid", <<<<nft.launcher_id>>, Null, fee>>)

onAddUrlSubmit(values) ==
  IssueCall("addUrl", "addNftUri",
            <<nft.launcher_id, values.url, values.kind, values.fee>>)

onBurnSubmit(fee) ==
  IssueCall("burn", "transferNfts", <<<<nft.launcher_id>>, BurnAddress, fee>>)

\* The text each handler gives console.error on an error result.
FailureMessage(k) ==
  CASE k = "transfer" -> "Failed to transfer NFT"
    [] k = "assign" -> "Failed to assign NFT"
    [] k = "unassign" -> "Failed to unassign NFT"
    [] k = "addUrl" -> "Failed to add NFT URL"
    [] k = "burn" -> "Failed to burn NFT"

\* props.updateNfts(): the host's refresh callback is invoked once.
updateNfts == refreshes' = 1

\* The continuation refreshing the host straight away on success instead of
\* waiting for the confirmation.
ThenActionResult_RefreshOnSuccess(k, result) ==
  /\ SetOpen(k, FALSE)
  /\ IF result.status = "error"
       THEN /\ reported' = Some([msg |-> FailureMessage(k), cause |-> result.error])
            /\ UNCHANGED summary
            /\ refreshes' = 0
       ELSE /\ summary' = result.data
            /\ reported' = Null
            /\ updateNfts
  /\ thrown' = Null

\* The continuation closing the dialog only on success.
ThenActionResult_OpenOnError(k, result) ==
  /\ IF result.status = "error"
       THEN /\ reported' = Some([msg |-> FailureMessage(k), cause |-> result.error])
            /\ UNCHANGED <<summary, openFlags>>
       ELSE /\ SetOpen(k, FALSE)
            /\ summary' = result.data
            /\ reported' = Null
  /\ refreshes' = 0
  /\ thrown' = Null

\* The continuation running setSummary(result.data) on either branch: an
\* error result carries no data, so the slot is set to null.
ThenActionResult_SetSummaryAlways(k, result) ==
  /\ SetOpen(k, FALSE)
  /\ IF result.status = "error"
       THEN reported' = Some([msg |-> FailureMessage(k), cause |-> result.error])
       ELSE reported' = Null
  /\ summary' = result.data
  /\ refreshes' = 0
  /\ thrown' = Null

\* The continuation closing every dialog of the card, not only its own.
ThenActionResult_ClosesAll(k, result) ==
  /\ transferOpen' = FALSE
  /\ assignOpen' = FALSE
  /\ unassignOpen' = FALSE
  /\ addUrlOpen' = FALSE
  /\ burnOpen' = FALSE
  /\ IF result.status = "error"
       THEN /\ reported' = Some([msg |-> FailureMessage(k), cause |-> result.error])
            /\ UNCHANGED summary
       ELSE /\ summary' = result.data
            /\ reported' = Null
  /\ refreshes' = 0
  /\ thrown' = Null

\* The .then((result) => ...) continuation of the five submit handlers: close
\* the kind's dialog, then report the error or set the summary.
ThenActionResult(k, result) ==
  /\ SetOpen(k, FALSE)
  /\ IF result.status = "error"
       THEN /\ reported' = Some([msg |-> FailureMessage(k), cause |-> result.error])
            /\ UNCHANGED summary
       ELSE /\ summary' = result.data
            /\ reported' = Null
  /\ refreshes' = 0
  /\ thrown' = Null

\* The continuation of toggleVisibility: refresh on ok, throw otherwise.
ThenToggleResult(result) ==
  /\ IF result.status = "ok"
       THEN /\ updateNfts
            /\ thrown' = Null
       ELSE /\ thrown' = Some("Failed to toggle visibility for NFT")
            /\ refreshes' = 0
  /\ reported' = Null
  /\ UNCHANGED <<openFlags, summary>>

\* The promise of call c resolves with a result and its continuation runs.
Resolve(c, result) ==
  /\ c \in inflight
  /\ result \in Results(c)
  /\ inflight' = inflight \ {c}
  /\ IF c.kind = "toggle"
       THEN ThenToggleResult(result)
       ELSE ThenActionResult(c.kind, result)
  /\ settled' = Some([id |-> c.id, kind |-> c.kind, status |-> result.status])
  /\ returned' = Some(result)
  /\ NoSubmission
  /\ called' = Null
  /\ UNCHANGED <<hostVars, addUrlForm, ncalls, invokes>>
  /\ event' = None

\* The promise of call c rejects (the bridge faulted): no .then continuation
\* runs and the card registers no rejection handler.
Reject(c) ==
  /\ c \in inflight
  /\ inflight' = inflight \ {c}
  /\ thrown' = Some("fault")
  /\ settled' = Some([id |-> c.id, kind |-> c.kind, status |-> "fault"])
  /\ NoSubmission
  /\ called' = Null
  /\ refreshes' = 0
  /\ reported' = Null
  /\ returned' = Null
  /\ UNCHANGED <<hostVars, openFlags, summary, addUrlForm, ncalls, invokes>>
  /\ event' = None

\* ------------------------------------------------------ NftCard: the menu
\* The Burn item left without its disabled flag.
MenuItemDisabled_BurnEnabled(k) == k # "burn" /\ Falsy(nft.created_height)

\* disabled={!nft.created_height} on the five action items.
MenuItemDisabled(k) == Falsy(nft.created_height)

\* The Unassign item is rendered only when the entity has an owner profile.
MenuItemRendered(k) == k = "unassign" => nft.owner_did # Null

\* The dialogs are modal: the menu is reachable only while none is shown.
MenuReachable ==
  ~(transferOpen \/ assignOpen \/ unassignOpen \/ addUrlOpen \/ burnOpen)

\* The Add URL item opening the dialog without addUrlForm.reset().
MenuClick_NoReset(k) ==
  /\ MenuReachable
  /\ MenuItemRendered(k)
  /\ ~MenuItemDisabled(k)
  /\ SetOpen(k, TRUE)
  /\ NoSubmission
  /\ NoCall
  /\ Quiet
  /\ UNCHANGED <<hostVars, summary, addUrlForm>>
  /\ event' = "open"

\* onClick of the menu item of action kind k.
MenuClick(k) ==
  /\ MenuReachable
  /\ MenuItemRendered(k)
  /\ ~MenuItemDisabled(k)
  /\ SetOpen(k, TRUE)
  /\ addUrlForm' = IF k = "addUrl" THEN DefaultValues ELSE addUrlForm
  /\ NoSubmission
  /\ NoCall
  /\ Quiet
  /\ UNCHANGED <<hostVars, summary>>
  /\ event' = "open"

\* The Hide/Show item flipping the entity's visible flag itself, ahead of the
\* backend.
MenuToggleVisibility_LocalFlip ==
  /\ MenuReachable
  /\ toggleVisibility
  /\ nft' = [nft EXCEPT !.visible = ~nft.visible]
  /\ NoSubmission
  /\ Quiet
  /\ UNCHANGED <<balance, openFlags, summary, addUrlForm>>
  /\ event' = "toggle"

\* onClick of the Hide/Show item: never disabled.
MenuToggleVisibility ==
  /\ MenuReachable
  /\ toggleVisibility
  /\ NoSubmission
  /\ Quiet
  /\ UNCHANGED <<hostVars, openFlags, summary, addUrlForm>>
  /\ event' = "toggle"

\* --------------------------------------------- NftCard: the Add URL dialog
\* The user edits a field of the Add URL form while the dialog is shown: the
\* form then holds values, which differ from the old ones in that field.
EditAddUrl(values) ==
  /\ addUrlOpen
  /\ values # addUrlForm
  /\ Cardinality({f \in {"url", "kind", "fee"} : values[f] # addUrlForm[f]}) = 1
  /\ addUrlForm' = values
  /\ NoSubmission
  /\ NoCall
  /\ Quiet
  /\ UNCHANGED <<hostVars, openFlags, summary>>
  /\ event' = None

\* The schema without the refinement that compares the fee with the balance.
addUrlFormSchema_NoBalanceCheck(values) ==
  {f \in {"url"} : ~(Len(values.url) >= 1)}
    \cup {f \in {"kind"} : ~(Len(values.kind) >= 1)}
    \cup {f \in {"fee"} : ~AmountValid(values.fee)}

\* The schema with the url field left optional.
addUrlFormSchema_UrlOptional(values) ==
  {f \in {"kind"} : ~(Len(values.kind) >= 1)}
    \cup {f \in {"fee"} : ~(AmountValid(values.fee) /\ BalanceGte(balance, values.fee))}

\* addUrlFormSchema: the fields of values the schema rejects.  url and kind
\* must be non-empty, fee a valid amount that the balance covers.
addUrlFormSchema(values) ==
  {f \in {"url"} : ~(Len(values.url) >= 1)}
    \cup {f \in {"kind"} : ~(Len(values.kind) >= 1)}
    \cup {f \in {"fee"} : ~(AmountValid(values.fee) /\ BalanceGte(balance, values.fee))}

\* The form's onSubmit: addUrlForm.handleSubmit(onAddUrlSubmit).
SubmitAddUrl ==
  /\ addUrlOpen
  /\ submitted' = Some([kind |-> "addUrl", field |-> <<addUrlForm.url, addUrlForm.kind>>,
                         fee |-> addUrlForm.fee])
  /\ rejected' = addUrlFormSchema(addUrlForm)
  /\ IF addUrlFormSchema(addUrlForm) = {}
       THEN onAddUrlSubmit(addUrlForm)
       ELSE NoCall
  /\ Quiet
  /\ UNCHANGED <<hostVars, openFlags, summary, addUrlForm>>
  /\ event' = None

\* The Cancel button left a submit button of the form: it closes the dialog
\* and the form's onSubmit runs as well.
CancelAddUrl_SubmitsForm ==
  /\ addUrlOpen
  /\ setAddUrlOpen(FALSE)
  /\ IF addUrlFormSchema(addUrlForm) = {}
       THEN onAddUrlSubmit(addUrlForm)
       ELSE NoCall
  /\ NoSubmission
  /\ Quiet
  /\ UNCHANGED <<hostVars, summary, addUrlForm>>
  /\ event' = "cancel"

\* Cancel aborting the Add URL calls still in flight.
CancelAddUrl_AbortsCall ==
  /\ addUrlOpen
  /\ setAddUrlOpen(FALSE)
  /\ inflight' = {c \in inflight : c.kind # "addUrl"}
  /\ called' = Null
  /\ UNCHANGED <<ncalls, invokes>>
  /\ NoSubmission
  /\ Quiet
  /\ UNCHANGED <<hostVars, summary, addUrlForm>>
  /\ event' = "cancel"

\* Cancel button and Dialog onOpenChange of the Add URL dialog.
CancelAddUrl ==
  /\ addUrlOpen
  /\ setAddUrlOpen(FALSE)
  /\ NoSubmission
  /\ NoCall
  /\ Quiet
  /\ UNCHANGED <<hostVars, summary, addUrlForm>>
  /\ event' = "cancel"

\* ------------------------- TransferDialog, AssignNftDialog, FeeOnlyDialog
\* The kinds whose input surface is one of the three dialog components.
DialogKinds == {"transfer", "assign", "unassign", "burn"}

\* The action-specific field a dialog of kind k asks for besides the fee.
FieldInputs(k) ==
  CASE k = "transfer" -> AddressInputs
    [] k = "assign" -> ProfileInputs
    [] OTHER -> {None}

\* Validation of a dialog's input, as the fields it rejects: the
\* action-specific field must be non-empty and the fee a valid amount no
\* greater than the spendable balance.
DialogSchema(k, field, fee) ==
  {f \in {"field"} : ~(Len(field) >= 1)}
    \cup {f \in {"fee"} : ~(AmountValid(fee) /\ BalanceGte(balance, fee))}

\* props.onSubmit of the dialog of kind k, as NftCard wires it.
OnSubmit(k, field, fee) ==
  CASE k = "transfer" -> onTransferSubmit(field, fee)
    [] k = "assign" -> onAssignSubmit(field, fee)
    [] k = "unassign" -> onUnassignSubmit(fee)
    [] k = "burn" -> onBurnSubmit(fee)

\* The user submits the dialog of kind k: validated input leaves Open
\* (props.setOpen(false)) and is handed to props.onSubmit; anything else is
\* rejected inline.
DialogSubmit(k, field, fee) ==
  /\ Open(k)
  /\ submitted' = Some([kind |-> k, field |-> field, fee |-> fee])
  /\ rejected' = DialogSchema(k, field, fee)
  /\ IF DialogSchema(k, field, fee) = {}
       THEN /\ SetOpen(k, FALSE)
            /\ OnSubmit(k, field, fee)
       ELSE /\ UNCHANGED openFlags
            /\ NoCall
  /\ Quiet
  /\ UNCHANGED <<hostVars, summary, addUrlForm>>
  /\ event' = None

\* The user dismisses the dialog of kind k: props.setOpen(false).
DialogCancel(k) ==
  /\ Open(k)
  /\ SetOpen(k, FALSE)
  /\ NoSubmission
  /\ NoCall
  /\ Quiet
  /\ UNCHANGED <<hostVars, summary, addUrlForm>>
  /\ event' = "cancel"

\* ------------------------------------------------------ ConfirmationDialog
\* close wired to a function that leaves the summary in place.
close_KeepsSummary == UNCHANGED summary

\* props.close of the ConfirmationDialog: () => setSummary(null).
close == summary' = Null

\* onConfirm wired to a function that does not call updateNfts.
onConfirm_NoRefresh == refreshes' = 0

\* props.onConfirm of the ConfirmationDialog: () => updateNfts().
onConfirm == updateNfts

\* confirm(): clears the pending summary and invokes the refresh callback;
\* nothing happens when no summary is pending.
Confirm ==
  /\ IF summary # Null
       THEN close /\ onConfirm
       ELSE UNCHANGED summary /\ refreshes' = 0
  /\ settled' = Null
  /\ returned' = Null
  /\ NoSubmission
  /\ reported' = Null
  /\ thrown' = Null
  /\ NoCall
  /\ UNCHANGED <<hostVars, openFlags, addUrlForm>>
  /\ event' = IF summary # Null THEN "confirm" ELSE "confirm-idle"

\* dismiss(): clears the pending summary without invoking refresh.
Dismiss ==
  /\ IF summary # Null THEN close ELSE UNCHANGED summary
  /\ NoSubmission
  /\ NoCall
  /\ Quiet
  /\ UNCHANGED <<hostVars, openFlags, addUrlForm>>
  /\ event' = IF summary # Null THEN "dismiss" ELSE "dismiss-idle"

\* ---------------------------------------------------------------- the host
\* The host re-renders the card with a new snapshot (props.nft) or a new
\* balance (the wallet state store).  The created marker is null until the
\* entity is chain-confirmed and set from then on.
Rerender(n, b) ==
  /\ <<n, b>> # <<nft, balance>>
  /\ n = nft \/ b = balance
  /\ nft.created_height # Null => n.created_height = nft.created_height
  /\ nft' = n
  /\ balance' = b
  /\ NoSubmission
  /\ NoCall
  /\ Quiet
  /\ UNCHANGED <<openFlags, summary, addUrlForm>>
  /\ event' = None

\* ------------------------------------------------------- src/commands.ts
\* The values an argument of an operation can take.
ArgValues == {"v1", "v2"}

\* What the bridge can answer to one invocation: the value of the backend
\* command, the failure the backend command reported, or a fault of the
\* bridge itself.  invoke's promise resolves with the first and rejects with
\* the other two.
BridgeAnswers ==
  {[status |-> "ok", value |-> "payload"],
   [status |-> "error", cause |-> "backend failure"],
   [status |-> "fault", cause |-> "bridge fault"]}

\* What a function without a return statement resolves with.
Undefined == "undefined"

\* An operation of commands.ts: an async function that awaits one invoke of
\* the backend command cmd with its parameters, and returns what invoke
\* resolved with (returns) or nothing.
Operation(name, cmd, params, returns) ==
  [name |-> name, cmd |-> cmd, params |-> params, returns |-> returns]

initialize == Operation("initialize", "initialize", <<>>, FALSE)

activeWallet == Operation("activeWallet", "active_wallet", <<>>, TRUE)

walletConfig == Operation("walletConfig", "wallet_config", <<"fingerprint">>, TRUE)

loginWallet == Operation("loginWallet", "login_wallet", <<"fingerprint">>, FALSE)

logoutWallet == Operation("logoutWallet", "logout_wallet", <<>>, FALSE)

walletList == Operation("walletList", "wallet_list", <<>>, TRUE)

generateMnemonic ==
  Operation("generateMnemonic", "generate_mnemonic", <<"use24Words">>, TRUE)

createWallet ==
  Operation("createWallet", "create_wallet",
            <<"name", "mnemonic", "saveMnemonic">>, FALSE)

importWallet == Operation("importWallet", "import_wallet", <<"name", "key">>, FALSE)

deleteWallet == Operation("deleteWallet", "delete_wallet", <<"fingerprint">>, FALSE)

renameWallet ==
  Operation("renameWallet", "rename_wallet", <<"fingerprint", "name">>, FALSE)

setDerivationMode ==
  Operation("setDerivationMode", "set_derivation_mode",
            <<"fingerprint", "derivationMode">>, FALSE)

setDerivationBatchSize ==
  Operation("setDerivationBatchSize", "set_derivation_batch_size",
            <<"fingerprint", "derivationBatchSize">>, FALSE)

Operations ==
  {initialize, activeWallet, walletConfig, loginWallet, logoutWallet,
   walletList, generateMnemonic, createWallet, importWallet, deleteWallet,
   renameWallet, setDerivationMode, setDerivationBatchSize}

\* The argument lists operation op can be called with.
ArgsOf(op) == [1..Len(op.params) -> ArgValues]

\* The operation a pending call record belongs to.
OperationNamed(n) == CHOOSE op \in Operations : op.name = n

\* invoke(cmd, args): the bridge receives one invocation.
invoke(cmd, args) ==
  /\ invokes' = invokes + 1
  /\ called' = Some([cmd |-> cmd, args |-> args])

\* The card does not take part in a step of commands.ts.
CardIdle ==
  /\ NoSubmission
  /\ refreshes' = 0
  /\ reported' = Null
  /\ event' = None
  /\ UNCHANGED <<hostVars, openFlags, summary, addUrlForm>>

\* A caller calls operation op: the function runs up to its await, having
\* invoked the bridge once.
ClientCall(op, args) ==
  /\ ncalls < MaxCalls
  /\ ncalls' = ncalls + 1
  /\ invoke(op.cmd, args)
  /\ inflight' = inflight \cup {[id |-> ncalls + 1, kind |-> op.name]}
  /\ settled' = Null
  /\ returned' = Null
  /\ thrown' = Null
  /\ CardIdle

\* An operation that invokes the bridge once more when the invocation did not
\* succeed, instead of settling.
ClientSettle_RetryOnFailure(c, answer) ==
  /\ c \in inflight
  /\ settled' = Some([id |-> c.id, kind |-> c.kind, status |-> answer.status])
  /\ IF answer.status = "ok"
       THEN /\ inflight' = inflight \ {c}
            /\ returned' = Some(IF OperationNamed(c.kind).returns
                                  THEN answer.value ELSE Undefined)
            /\ called' = Null
            /\ UNCHANGED invokes
       ELSE /\ invokes = ncalls
            /\ invoke(OperationNamed(c.kind).cmd, <<>>)
            /\ returned' = Null
            /\ UNCHANGED inflight
  /\ thrown' = Null
  /\ UNCHANGED ncalls
  /\ CardIdle

\* The promise of call c's invoke settles and the function resumes after its
\* await: it returns on a resolved promise; a rejected promise makes the
\* await throw, and no operation catches, so the operation's own promise
\* rejects with the same cause.
ClientSettle(c, answer) ==
  /\ c \in inflight
  /\ inflight' = inflight \ {c}
  /\ settled' = Some([id |-> c.id, kind |-> c.kind, status |-> answer.status])
  /\ IF answer.status = "ok"
       THEN /\ returned' = Some(IF OperationNamed(c.kind).returns
                                  THEN answer.value ELSE Undefined)
            /\ thrown' = Null
       ELSE /\ returned' = Null
            /\ thrown' = Some(answer.cause)
  /\ called' = Null
  /\ UNCHANGED <<ncalls, invokes>>
  /\ CardIdle

\* -------------------------------------------------------------------- Next
\* The steps whose code is NftCard's own: the menu, the Add URL dialog, the
\* continuations of the calls, and the host handing in new props.
NextCard ==
  \/ \E k \in Kinds : MenuClick(k)
  \/ MenuToggleVisibility
  \/ \E v \in AddUrlValues : EditAddUrl(v)
  \/ SubmitAddUrl
  \/ CancelAddUrl
  \/ \E c \in inflight : \E r \in Results(c) : Resolve(c, r)
  \/ \E c \in inflight : Reject(c)
  \/ \E n \in NftRecords : \E b \in Balances : Rerender(n, b)

\* The steps taken through the dialog components NftCard renders.
NextDialogs ==
  \/ \E k \in DialogKinds : \E f \in FieldInputs(k) : \E fee \in FeeInputs :
       DialogSubmit(k, f, fee)
  \/ \E k \in DialogKinds : DialogCancel(k)
  \/ Confirm
  \/ Dismiss

Next == NextCard \/ NextDialogs

\* The card alone: no step of TransferDialog, AssignNftDialog, FeeOnlyDialog or
\* ConfirmationDialog is taken.
SpecCard == Init /\ [][NextCard]_vars

\* The operations of commands.ts called by some caller, the card idle.
NextClient ==
  \/ \E op \in Operations : \E args \in ArgsOf(op) : ClientCall(op, args)
  \/ \E c \in inflight : \E a \in BridgeAnswers : ClientSettle(c, a)

SpecClient == Init /\ [][NextClient]_vars

Spec == Init /\ [][Next]_vars

\* ================================================================== claims
\* The action kind a settled or issued call record belongs to.
IsActionCall(c) == c.kind \in Kinds

\* The promises in flight for action kind k.
InFlightOf(k) == {c \in inflight : c.kind = k}

\* C1: a pending summary is never replaced while it is pending: once the slot
\* holds a summary, a step either leaves it there or clears it (confirm,
\* dismiss); no outcome arriving later puts a different summary in its place.
C1_PendingSummaryNeverReplaced ==
  [][summary # Null => summary' \in {summary, Null}]_vars

\* C2: for every action kind at most one call is in flight at any time.
C2_AtMostOneCallInFlightPerKind ==
  \A k \in Kinds : Cardinality(InFlightOf(k)) <= 1

\* C3: the workflow leaves Open before the call is issued: in the state right
\* after a submit handler has issued its call, the input surface of that
\* action kind is not open.
C3_SurfaceClosedWhenCallIssued ==
  called # Null =>
    \A c \in inflight : (c.id = ncalls /\ IsActionCall(c)) => ~Open(c.kind)

\* The fee argument of a call: the last argument of every action command.
FeeOf(call) == call.args[Len(call.args)]

\* C4: a submission whose fee is greater than the known balance is rejected at
\* validation and issues no call; every action call that is issued carries a
\* valid fee the balance covers.
C4_FeeAboveBalanceIssuesNoCall ==
  /\ (submitted # Null /\ BigNumber(submitted[1].fee) > balance) =>
       ("fee" \in rejected /\ called = Null)
  /\ (called # Null /\ called[1].cmd # "updateNft") =>
       (AmountValid(FeeOf(called[1])) /\ BigNumber(FeeOf(called[1])) <= balance)

\* An Add URL submission with a fee above the balance has just been rejected.
C4_Witness ==
  /\ submitted # Null
  /\ submitted[1].kind = "addUrl"
  /\ BigNumber(submitted[1].fee) > balance
  /\ "fee" \in rejected
  /\ called = Null

\* C5: the refresh callback never fires when the outcome of a mutating action
\* arrives; outside the visibility toggle it fires only in a step that clears
\* the pending summary (the confirm), exactly once in that step; and a summary
\* enters the slot only as the ok outcome of its own call, so it is confirmed,
\* and refreshed for, at most once.
C5_RefreshOnlyOnConfirm ==
  [][/\ (settled' # Null /\ IsActionCall(settled'[1])) => refreshes' = 0
     /\ refreshes' <= 1
     /\ (refreshes' = 1 /\ settled' = Null) => (summary # Null /\ summary' = Null)
     /\ (summary # Null /\ Confirm) => (refreshes' = 1 /\ summary' = Null)
     /\ summary' \notin {summary, Null} =>
          /\ settled' # Null
          /\ settled'[1].status = "ok"
          /\ summary' = Some(settled'[1].id)]_vars

\* A pending summary has just been confirmed and the refresh callback invoked.
C5_Witness == refreshes = 1 /\ settled = Null /\ summary = Null

\* C6: when the call's promise rejects (a boundary fault), the workflow
\* returns to Closed: after the fault the open flag of that action kind is
\* false.
C6_FaultReturnsToClosed ==
  (settled # Null /\ IsActionCall(settled[1]) /\ settled[1].status = "fault") =>
    ~Open(settled[1].kind)

\* C7: the input surface closes on any outcome: right after an ok or error
\* result of an action call has been applied, that kind's open flag is false.
C7_SurfaceClosedAfterOutcome ==
  (settled # Null /\ IsActionCall(settled[1])
     /\ settled[1].status \in {"ok", "error"}) =>
    ~Open(settled[1].kind)

\* An Add URL call issued from the open dialog has just failed and the dialog
\* is closed.
C7_Witness ==
  /\ settled # Null
  /\ settled[1].kind = "addUrl"
  /\ settled[1].status = "error"
  /\ ~addUrlOpen

\* C8: on a Failure outcome the surface is closed, the cause is reported to
\* the error channel, the summary slot is left as it was, the refresh callback
\* is not invoked and nothing is thrown; the menu item of that kind can then
\* be used again whenever the menu offers it.
C8_FailureClosesAndReports ==
  [][(settled' # Null /\ IsActionCall(settled'[1])
        /\ settled'[1].status = "error") =>
       /\ \A k \in Kinds : k = settled'[1].kind => ~Open(k)'
       /\ reported' = Some([msg |-> FailureMessage(settled'[1].kind),
                            cause |-> Some(settled'[1].id)])
       /\ summary' = summary
       /\ refreshes' = 0
       /\ thrown' = Null]_vars
  /\ [](\A k \in Kinds :
          (settled # Null /\ settled[1].kind = k /\ settled[1].status = "error"
             /\ MenuReachable /\ MenuItemRendered(k) /\ ~Falsy(nft.created_height))
          => ENABLED MenuClick(k))

\* A failure has just been reported while a summary of an earlier call is
\* still pending.
C8_Witness ==
  /\ settled # Null
  /\ IsActionCall(settled[1])
  /\ settled[1].status = "error"
  /\ reported # Null
  /\ summary # Null

\* C9: while created_height is null none of the five workflows can be opened,
\* so none is open and no call of those kinds is issued or in flight; the
\* visibility toggle stays enabled.
C9_UncreatedEntityGatesActions ==
  nft.created_height = Null =>
    /\ \A k \in Kinds : ~ENABLED MenuClick(k) /\ ~Open(k) /\ InFlightOf(k) = {}
    /\ called # Null => called[1].cmd = "updateNft"
    /\ ncalls < MaxCalls => ENABLED MenuToggleVisibility

\* The visibility toggle has just been issued for an entity not yet created.
C9_Witness ==
  /\ nft.created_height = Null
  /\ called # Null
  /\ called[1].cmd = "updateNft"

\* The call the Command Client is to receive for a validated submission.
ExpectedCall(sub) ==
  CASE sub.kind = "transfer" ->
         [cmd |-> "transferNfts", args |-> <<<<LauncherId>>, sub.field, sub.fee>>]
    [] sub.kind = "assign" ->
         [cmd |-> "assignNftsToDid", args |-> <<<<LauncherId>>, sub.field, sub.fee>>]
    [] sub.kind = "unassign" ->
         [cmd |-> "assignNftsToDid", args |-> <<<<LauncherId>>, Null, sub.fee>>]
    [] sub.kind = "addUrl" ->
         [cmd |-> "addNftUri",
          args |-> <<LauncherId, sub.field[1], sub.field[2], sub.fee>>]
    [] sub.kind = "burn" ->
         [cmd |-> "transferNfts", args |-> <<<<LauncherId>>, BurnAddress, sub.fee>>]

\* C10: every validated submission issues exactly one call, carrying exactly
\* the submitted values (transfer(X, addr, fee) calls transferNfts with [X],
\* addr and fee); an action call is issued by nothing else; and on the ok
\* outcome of a call the summary slot holds that call's summary.
C10_OneCallWithSubmittedValues ==
  [][/\ (submitted' # Null /\ rejected' = {}) =>
          /\ ncalls' = ncalls + 1
          /\ inflight \subseteq inflight'
          /\ inflight' \ inflight = {[id |-> ncalls', kind |-> submitted'[1].kind]}
          /\ called' = Some(ExpectedCall(submitted'[1]))
     /\ (called' # Null /\ called'[1].cmd # "updateNft") =>
          (submitted' # Null /\ rejected' = {})
     /\ (settled' # Null /\ IsActionCall(settled'[1]) /\ settled'[1].status = "ok") =>
          summary' = Some(settled'[1].id)]_vars

\* transfer(X, addr1, "1") has just been submitted with balance 1.
C10_Witness ==
  /\ submitted = Some([kind |-> "transfer", field |-> "addr1", fee |-> "1"])
  /\ called = Some([cmd |-> "transferNfts", args |-> <<<<"X">>, "addr1", "1">>])
  /\ balance = 1

\* The values the Add URL schema can be handed, the empty kind included.
SchemaInputs == [url : UrlInputs, kind : UriKinds \cup {""}, fee : FeeInputs]

\* C11: an Add URL submission whose url (or kind) is empty is rejected at
\* validation: the schema rejects the empty field, no call is issued, the
\* dialog stays open, and the summary slot and the refresh callback are
\* untouched.
C11_EmptyUrlRejected ==
  /\ [][(/\ submitted' # Null
          /\ submitted'[1].kind = "addUrl"
          /\ "" \in {submitted'[1].field[1], submitted'[1].field[2]}) =>
         /\ (submitted'[1].field[1] = "" => "url" \in rejected')
         /\ (submitted'[1].field[2] = "" => "kind" \in rejected')
         /\ called' = Null
         /\ UNCHANGED <<ncalls, inflight>>
         /\ addUrlOpen /\ addUrlOpen'
         /\ summary' = summary
         /\ refreshes' = 0]_vars
  /\ [](\A v \in SchemaInputs :
          /\ v.url = "" => "url" \in addUrlFormSchema(v)
          /\ v.kind = "" => "kind" \in addUrlFormSchema(v))

\* attach-uri(X, url = "", kind = "data", fee = "0") has just been rejected
\* with the dialog still open.
C11_Witness ==
  /\ submitted = Some([kind |-> "addUrl", field |-> <<"", "data">>, fee |-> "0"])
  /\ "url" \in rejected
  /\ called = Null
  /\ addUrlOpen

\* The summary numbered s is spent: its call has settled and the slot does not
\* hold it.
SummarySpent(s) ==
  /\ s <= ncalls
  /\ \A c \in inflight : c.id # s
  /\ summary # Some(s)

\* C12: dismiss() clears the pending summary without invoking the refresh
\* callback; the dismissed summary is spent and stays spent, so it is never in
\* the slot again; the gate invokes refresh only in a confirm of the summary
\* the slot then holds, hence never for a dismissed one; and dismiss() with
\* nothing pending changes nothing.
C12_DismissNeverRefreshes ==
  [][/\ Dismiss =>
          /\ summary' = Null
          /\ refreshes' = 0
          /\ UNCHANGED <<hostVars, openFlags, addUrlForm, inflight, ncalls>>
          /\ \A s \in 1..MaxCalls : summary = Some(s) => SummarySpent(s)'
     /\ \/ UNCHANGED <<summary, inflight, ncalls>>
        \/ \A s \in 1..MaxCalls : SummarySpent(s) => SummarySpent(s)'
     /\ (refreshes' = 1 /\ settled' = Null) =>
          (event' = "confirm" /\ summary # Null /\ summary' = Null)]_vars

\* The summary of call 1 has just been dismissed: the slot is empty and the
\* refresh callback was not invoked.
C12_Witness ==
  /\ event = "dismiss"
  /\ SummarySpent(1)
  /\ summary = Null
  /\ refreshes = 0

\* C13: confirm() on a pending summary clears the slot and invokes the refresh
\* callback once; confirm() with nothing pending is a no-op: the slot stays
\* empty and the refresh callback is not invoked.  Either way nothing else of
\* the card changes.
C13_ConfirmClearsAndRefreshes ==
  [][Confirm =>
       /\ summary # Null => (summary' = Null /\ refreshes' = 1)
       /\ summary = Null => (summary' = Null /\ refreshes' = 0)
       /\ UNCHANGED <<hostVars, openFlags, addUrlForm, inflight, ncalls>>]_vars

\* confirm() has just been handled with nothing pending: no refresh.
C13_Witness ==
  /\ event = "confirm-idle"
  /\ summary = Null
  /\ refreshes = 0

\* How the outcome of a call of kind k is handled: the kind's dialog is
\* closed; on ok the summary of the call is presented, on error the cause is
\* reported and the slot left alone; no refresh either way.
OutcomeHandled(k) ==
  (settled' # Null /\ settled'[1].kind = k /\ settled'[1].status # "fault") =>
    /\ ~Open(k)'
    /\ refreshes' = 0
    /\ thrown' = Null
    /\ IF settled'[1].status = "ok"
         THEN summary' = Some(settled'[1].id) /\ reported' = Null
         ELSE /\ summary' = summary
              /\ reported' # Null
              /\ reported'[1].cause = Some(settled'[1].id)

\* C14: unassign uses the call path of assign: a validated unassign(fee)
\* issues exactly one assignNftsToDid call with the entity list [X], a null
\* profile and that fee, as a validated assign(profile, fee) issues one with
\* that profile; and the outcome of either call is handled the same way.
C14_UnassignIsAssignWithNull ==
  [][/\ (submitted' # Null /\ rejected' = {} /\ submitted'[1].kind = "unassign") =>
          /\ called' = Some([cmd |-> "assignNftsToDid",
                             args |-> <<<<nft.launcher_id>>, Null, submitted'[1].fee>>])
          /\ ncalls' = ncalls + 1
          /\ inflight' = inflight \cup {[id |-> ncalls', kind |-> "unassign"]}
     /\ (submitted' # Null /\ rejected' = {} /\ submitted'[1].kind = "assign") =>
          /\ called' = Some([cmd |-> "assignNftsToDid",
                             args |-> <<<<nft.launcher_id>>, submitted'[1].field,
                                        submitted'[1].fee>>])
          /\ ncalls' = ncalls + 1
          /\ inflight' = inflight \cup {[id |-> ncalls', kind |-> "assign"]}
     /\ OutcomeHandled("unassign")
     /\ OutcomeHandled("assign")]_vars

\* unassign("0") has just been submitted for X: assignNftsToDid([X], null, "0").
C14_Witness ==
  /\ submitted = Some([kind |-> "unassign", field |-> None, fee |-> "0"])
  /\ called = Some([cmd |-> "assignNftsToDid", args |-> <<<<"X">>, Null, "0">>])

\* The names of the operations of commands.ts.
OperationNames == {op.name : op \in Operations}

\* C15: the Command Client never raises for a failure the backend reports:
\* such a failure reaches the caller as a value the operation's promise
\* resolves with, and an operation raises only when the bridge itself faults.
C15_BackendFailureIsAValue ==
  (settled # Null /\ settled[1].kind \in OperationNames) =>
    /\ settled[1].status = "error" => (thrown = Null /\ returned # Null)
    /\ thrown # Null => settled[1].status = "fault"

\* C16: every call of an operation invokes the bridge exactly once, with the
\* operation's command and arguments; settling a call, failed or not, invokes
\* nothing and takes the call out of the pending ones for good; so the bridge
\* has received as many invocations as there were calls: a second call of the
\* same operation is a second invocation.
C16_OneInvocationPerCall ==
  /\ [][/\ \A op \in Operations : \A args \in ArgsOf(op) :
              ClientCall(op, args) =>
                /\ invokes' = invokes + 1
                /\ called' = Some([cmd |-> op.cmd, args |-> args])
        /\ ncalls' # ncalls => (ncalls' = ncalls + 1 /\ invokes' = invokes + 1)
        /\ invokes' # invokes => ncalls' = ncalls + 1
        /\ settled' # Null =>
             /\ invokes' = invokes
             /\ called' = Null
             /\ \A c \in inflight' : c.id # settled'[1].id]_vars
  /\ [](invokes = ncalls)

\* loginWallet has been called twice and invoked twice; the first invocation
\* has just failed and the second is still pending.
C16_Witness ==
  /\ ncalls = 2
  /\ invokes = 2
  /\ settled = Some([id |-> 1, kind |-> "loginWallet", status |-> "error"])
  /\ inflight = {[id |-> 2, kind |-> "loginWallet"]}

\* C17: dismissing an input surface before submission issues no call: a
\* cancel or close event on an open surface closes it and leaves the calls
\* (their number, the pending ones, the bridge), the summary slot and the
\* refresh callback alone.
C17_CancelIssuesNoCall ==
  [][\A k \in Kinds :
       ((k = "addUrl" /\ CancelAddUrl) \/ (k \in DialogKinds /\ DialogCancel(k))) =>
         /\ Open(k) /\ ~Open(k)'
         /\ called' = Null
         /\ UNCHANGED <<ncalls, invokes, inflight>>
         /\ summary' = summary
         /\ refreshes' = 0]_vars

\* The Add URL dialog has just been cancelled with a url typed in and never
\* submitted: no call exists.
C17_Witness ==
  /\ event = "cancel"
  /\ ~addUrlOpen
  /\ addUrlForm.url = "u1"
  /\ ncalls = 0
  /\ summary = Null

\* A step in which the card does nothing: no flag, form value or summary
\* changes, no call is issued or settled, nothing is submitted, no callback
\* runs and no gesture is handled.  Every step of the card fails one of
\* these: a gesture is marked in event, a submission in submitted, a call in
\* called, an outcome in settled, an edit changes addUrlForm.
CardUntouched ==
  /\ UNCHANGED <<openFlags, summary, addUrlForm, inflight, ncalls, invokes>>
  /\ called' = Null
  /\ settled' = Null
  /\ submitted' = Null
  /\ refreshes' = 0
  /\ reported' = Null
  /\ thrown' = Null
  /\ event' = None

\* C18: the card never writes the entity snapshot or the wallet balance:
\* every step of the card (open, edit, cancel, submit, outcome handling,
\* confirm, dismiss, toggle-visibility) leaves nft and balance as they are;
\* they change only in a step of the host handing the card new props, in
\* which the card does nothing.
C18_CardNeverWritesHostState ==
  [][~CardUntouched => UNCHANGED <<nft, balance>>]_vars

\* The visibility toggle has just been issued for the negation of the flag the
\* snapshot still carries.
C18_Witness ==
  /\ event = "toggle"
  /\ called # Null
  /\ called[1].cmd = "updateNft"
  /\ called[1].args[2] = ~nft.visible
  /\ nft.created_height # Null

\* C19: a call in flight is never cancelled: a call leaves the pending ones
\* only when its own outcome is applied, so no cancel, reopening or other
\* user event takes it away; while it is pending each of its outcomes can
\* still be applied, whatever the state of its surface; and an ok outcome
\* presents the call's summary and leaves the kind's open flag false, also
\* when the surface is open again at that moment.
C19_InFlightCallNeverCancelled ==
  /\ [][/\ \A c \in inflight :
              c \notin inflight' => (settled' # Null /\ settled'[1].id = c.id)
         /\ \A k \in Kinds :
              (/\ settled' # Null
               /\ settled'[1].kind = k
               /\ settled'[1].status = "ok") =>
                (summary' = Some(settled'[1].id) /\ ~Open(k)')]_vars
  /\ [](\A c \in inflight : \A r \in Results(c) : ENABLED Resolve(c, r))

\* The Add URL dialog has just been opened from the menu again, so it had
\* been closed, while its call is in flight: the call is still pending.
C19_Witness ==
  /\ event = "open"
  /\ addUrlOpen
  /\ \E c \in inflight : c.kind = "addUrl"

\* C20: entering Open populates the fields from the defaults and issues no
\* call: whenever the Add URL dialog is opened from the menu its fields are
\* url = "", kind = "data", fee = "0", whatever they held before, and the
\* calls (their number, the pending ones, the bridge) are as they were.
C20_OpenResetsFormAndIssuesNoCall ==
  [][MenuClick("addUrl") =>
       /\ ~addUrlOpen /\ addUrlOpen'
       /\ addUrlForm' = [url |-> "", kind |-> "data", fee |-> "0"]
       /\ called' = Null
       /\ UNCHANGED <<ncalls, invokes, inflight>>]_vars

\* The Add URL dialog has just been opened again after a submission with a
\* url typed in (its call is still in flight): the fields are the defaults.
C20_Witness ==
  /\ event = "open"
  /\ addUrlOpen
  /\ addUrlForm = [url |-> "", kind |-> "data", fee |-> "0"]
  /\ ncalls = 1
  /\ inflight = {[id |-> 1, kind |-> "addUrl"]}

\* C21: the visibility toggle bypasses the workflow and the confirmation: the
\* click issues exactly one updateNft call with the negation of the visible
\* flag the snapshot carries; an ok outcome invokes the refresh callback once,
\* at once; an error outcome throws and invokes no refresh; and neither the
\* click nor the outcome touches the summary slot or any open flag.
C21_ToggleBypassesWorkflow ==
  [][/\ MenuToggleVisibility =>
          /\ called' = Some([cmd |-> "updateNft",
                             args |-> <<nft.launcher_id, ~nft.visible>>])
          /\ ncalls' = ncalls + 1
          /\ invokes' = invokes + 1
          /\ inflight' = inflight \cup {[id |-> ncalls', kind |-> "toggle"]}
          /\ refreshes' = 0
          /\ UNCHANGED <<openFlags, summary>>
     /\ (settled' # Null /\ settled'[1].kind = "toggle") =>
          /\ UNCHANGED <<openFlags, summary>>
          /\ settled'[1].status = "ok" => (refreshes' = 1 /\ thrown' = Null)
          /\ settled'[1].status = "error" =>
               /\ refreshes' = 0
               /\ thrown' = Some("Failed to toggle visibility for NFT")]_vars

\* The ok outcome of a visibility toggle has just been applied while the Add
\* URL dialog is open: the refresh callback ran, the slot is empty and the
\* dialog is still open.
C21_Witness ==
  /\ settled # Null
  /\ settled[1].kind = "toggle"
  /\ settled[1].status = "ok"
  /\ refreshes = 1
  /\ summary = Null
  /\ addUrlOpen

\* C22: the action kinds of one card are independent but for the summary
\* slot: applying the ok or error outcome of a call of kind k leaves k's open
\* flag false and the open flags of the other four kinds as they were, and
\* changes nothing else of the card but possibly the slot; a call of one
\* kind does not keep calls of other kinds from being in flight with it.
C22_KindsIndependent ==
  [][\A k \in Kinds :
       (/\ settled' # Null
        /\ settled'[1].kind = k
        /\ settled'[1].status \in {"ok", "error"}) =>
         /\ ~Open(k)'
         /\ \A j \in Kinds \ {k} : Open(j)' = Open(j)
         /\ UNCHANGED <<hostVars, addUrlForm, ncalls, invokes>>
         /\ inflight' = inflight \ {[id |-> settled'[1].id, kind |-> k]}]_vars

\* The outcome of a transfer call has just been applied while the Add URL
\* dialog is open and an Add URL call, issued while the transfer call was in
\* flight, is still pending: the Add URL dialog is still open.
C22_Witness ==
  /\ settled # Null
  /\ settled[1].kind = "transfer"
  /\ settled[1].id = 1
  /\ addUrlOpen
  /\ inflight = {[id |-> 2, kind |-> "addUrl"]}

====
